---- MODULE Spec2Model ----
(***************************************************************************)
(* The memory store of src/src/memory_tool.py (LocalFilesystemMemoryTool)  *)
(* as a state machine over a small POSIX file system.                      *)
(*                                                                         *)
(* A string is a sequence of one-character strings.  A file-system node is *)
(* named by its absolute location: the sequence of its component names     *)
(* from the file-system root, each name a string.  dirs is the set of      *)
(* directories, files maps every regular file to its stored text.          *)
(*                                                                         *)
(* The session recorder of src/src/session_trace.py (SessionTrace) is the  *)
(* pair trace, its in-memory document, and trace_file, what its file holds.*)
(***************************************************************************)
EXTENDS Integers, Sequences, FiniteSets, TLC

VARIABLES dirs, files, last, mode, trace, trace_file

vars == <<dirs, files, last, mode, trace, trace_file>>

-----------------------------------------------------------------------------
(* Bounds of the exploration.                                              *)

\* longest stored text a call may produce (calls that would exceed it are not explored)
MaxText == 3
\* longest text argument of replace (old) explored in text mode
MaxOld == 2
\* largest number of nodes below the store root explored in paths mode
MaxNodes == 2
\* longest event list of the session recorder explored
MaxEvents == 2

-----------------------------------------------------------------------------
(* Characters and strings.                                                 *)

LF == "\n"
CR == "\r"
FF == "\f"
SLASH == "/"
DOT == "."

\* str.splitlines boundaries; VT, FS, GS, RS, NEL, LS and PS behave as FF does
LineBoundaries == {LF, CR, FF}

\* the code points of the characters the model writes in names, for sorted()
CodePoint(c) ==
    CASE c = DOT -> 46 [] c = SLASH -> 47
      [] c = "a" -> 97 [] c = "b" -> 98 [] c = "e" -> 101 [] c = "h" -> 104
      [] c = "i" -> 105 [] c = "m" -> 109 [] c = "o" -> 111 [] c = "r" -> 114
      [] c = "s" -> 115 [] c = "w" -> 119 [] c = "y" -> 121
      [] OTHER -> 0

StartsWith(s, pre) == Len(s) >= Len(pre) /\ SubSeq(s, 1, Len(pre)) = pre

EndsWith(s, suf) == Len(s) >= Len(suf) /\ SubSeq(s, Len(s) - Len(suf) + 1, Len(s)) = suf

RECURSIVE Concat(_)
Concat(ss) == IF ss = <<>> THEN <<>> ELSE Head(ss) \o Concat(Tail(ss))

\* sep.join(ss)
RECURSIVE Join(_, _)
Join(ss, sep) ==
    IF ss = <<>> THEN <<>>
    ELSE IF Len(ss) = 1 THEN Head(ss)
    ELSE Head(ss) \o sep \o Join(Tail(ss), sep)

\* s.lstrip("/")
RECURSIVE LStripSlash(_)
LStripSlash(s) ==
    IF s # <<>> /\ Head(s) = SLASH THEN LStripSlash(Tail(s)) ELSE s

\* s.split("/")
RECURSIVE SplitSlash(_, _)
SplitSlash(s, acc) ==
    IF s = <<>> THEN <<acc>>
    ELSE IF Head(s) = SLASH THEN <<acc>> \o SplitSlash(Tail(s), <<>>)
    ELSE SplitSlash(Tail(s), Append(acc, Head(s)))

\* all strings over alphabet A of length at most n
RECURSIVE StringsUpTo(_, _)
StringsUpTo(A, n) ==
    IF n = 0 THEN {<<>>}
    ELSE LET shorter == StringsUpTo(A, n - 1)
         IN  shorter \cup {Append(s, c) : s \in shorter, c \in A}

\* length of the line break that starts at s[i]: 0 when none starts there
BreakLen(s, i) ==
    IF s[i] = CR /\ i < Len(s) /\ s[i + 1] = LF THEN 2
    ELSE IF s[i] \in LineBoundaries THEN 1
    ELSE 0

RECURSIVE SplitFrom(_, _, _, _)
SplitFrom(s, i, start, keepends) ==
    IF i > Len(s)
    THEN IF start <= Len(s) THEN <<SubSeq(s, start, Len(s))>> ELSE <<>>
    ELSE LET b == BreakLen(s, i)
         IN  IF b = 0 THEN SplitFrom(s, i + 1, start, keepends)
             ELSE <<SubSeq(s, start, IF keepends THEN i + b - 1 ELSE i - 1)>>
                    \o SplitFrom(s, i + b, i + b, keepends)

\* str.splitlines(keepends)
splitlines(s, keepends) == SplitFrom(s, 1, 1, keepends)

\* str.count(sub): occurrences counted left to right without overlap
RECURSIVE CountFrom(_, _, _)
CountFrom(s, sub, i) ==
    IF i + Len(sub) - 1 > Len(s) THEN 0
    ELSE IF SubSeq(s, i, i + Len(sub) - 1) = sub
         THEN 1 + CountFrom(s, sub, i + Len(sub))
         ELSE CountFrom(s, sub, i + 1)

count(s, sub) == IF sub = <<>> THEN Len(s) + 1 ELSE CountFrom(s, sub, 1)

\* str.replace(old, new): every occurrence, left to right without overlap
RECURSIVE ReplaceFrom(_, _, _, _)
ReplaceFrom(s, old, new, i) ==
    IF i > Len(s) THEN <<>>
    ELSE IF i + Len(old) - 1 <= Len(s) /\ SubSeq(s, i, i + Len(old) - 1) = old
         THEN new \o ReplaceFrom(s, old, new, i + Len(old))
         ELSE <<s[i]>> \o ReplaceFrom(s, old, new, i + 1)

replace(s, old, new) ==
    IF old = <<>>
    THEN new \o Concat([i \in 1..Len(s) |-> <<s[i]>> \o new])
    ELSE ReplaceFrom(s, old, new, 1)

\* lines[a:b - 1] for a >= 0 and b >= 1: the slice with its end taken as exclusive
PySliceShort(lines, a, b) ==
    LET n == Len(lines)
        hi == IF b - 1 > n THEN n ELSE b - 1
    IN  IF a >= hi THEN <<>> ELSE SubSeq(lines, a + 1, hi)

\* lines[a:b] for a >= 0
PySlice(lines, a, b) ==
    LET n == Len(lines)
        hi == IF b < 0 THEN (IF b + n < 0 THEN 0 ELSE b + n) ELSE (IF b > n THEN n ELSE b)
    IN  IF a >= hi THEN <<>> ELSE SubSeq(lines, a + 1, hi)

-----------------------------------------------------------------------------
(* Paths.  A pathlib path is its sequence of parts; the store's paths are  *)
(* relative to the working directory of the process.                       *)

MountPrefix == <<"/", "m", "e", "m", "o", "r", "i", "e", "s">>
Memories == <<"m", "e", "m", "o", "r", "i", "e", "s">>
Memory == <<"m", "e", "m", "o", "r", "y">>
DotDot == <<DOT, DOT>>

\* the working directory of the process, /w
CwdAbs == << <<"w">> >>

\* Path(base_path) / "memories" for base_path = "./memory"
memory_root == <<Memory, Memories>>

IsPrefix(p, q) == Len(p) <= Len(q) /\ SubSeq(q, 1, Len(p)) = p

Parent(loc) == IF loc = <<>> THEN <<>> ELSE SubSeq(loc, 1, Len(loc) - 1)

\* pathlib's parsing of a relative path string: empty and "." parts are dropped
PathParts(s) == SelectSeq(SplitSlash(s, <<>>), LAMBDA c : c # <<>> /\ c # <<DOT>>)

\* Path.parent
PathParent(P) == IF P = <<>> THEN <<>> ELSE SubSeq(P, 1, Len(P) - 1)

\* Path.resolve() where no symbolic link exists: ".." is taken lexically
RECURSIVE Normalize(_, _)
Normalize(acc, comps) ==
    IF comps = <<>> THEN acc
    ELSE Normalize(IF Head(comps) = DotDot THEN Parent(acc) ELSE Append(acc, Head(comps)),
                   Tail(comps))

resolve(P) == Normalize(CwdAbs, P)

\* the absolute location of the store root
RootAbs == resolve(memory_root)

\* _validate_path without the containment check of lines 78-81
validate_path_unchecked(path) ==
    IF ~StartsWith(path, MountPrefix) THEN [ok |-> FALSE, line |-> 71, full_path |-> <<>>]
    ELSE LET relative_path == LStripSlash(SubSeq(path, Len(MountPrefix) + 1, Len(path)))
         IN  [ok |-> TRUE, line |-> 0,
              full_path |-> IF relative_path # <<>>
                            THEN memory_root \o PathParts(relative_path)
                            ELSE memory_root]

\* _validate_path without the prefix check of lines 70-71
validate_path_noprefix(path) ==
    LET rest == IF StartsWith(path, MountPrefix)
                THEN SubSeq(path, Len(MountPrefix) + 1, Len(path)) ELSE path
        relative_path == LStripSlash(rest)
        full_path == IF relative_path # <<>>
                     THEN memory_root \o PathParts(relative_path)
                     ELSE memory_root
    IN  IF IsPrefix(resolve(memory_root), resolve(full_path))
        THEN [ok |-> TRUE, line |-> 0, full_path |-> full_path]
        ELSE [ok |-> FALSE, line |-> 81, full_path |-> <<>>]

\* _validate_path: ok is FALSE where the code raises ValueError, at line
validate_path(path) ==
    IF ~StartsWith(path, MountPrefix) THEN [ok |-> FALSE, line |-> 71, full_path |-> <<>>]
    ELSE LET relative_path == LStripSlash(SubSeq(path, Len(MountPrefix) + 1, Len(path)))
             full_path == IF relative_path # <<>>
                          THEN memory_root \o PathParts(relative_path)
                          ELSE memory_root
         IN  IF IsPrefix(resolve(memory_root), resolve(full_path))
             THEN [ok |-> TRUE, line |-> 0, full_path |-> full_path]
             ELSE [ok |-> FALSE, line |-> 81, full_path |-> <<>>]

-----------------------------------------------------------------------------
(* The file system.  fs is [dirs, files]; every primitive returns the      *)
(* errno it fails with ("none" when it succeeds) and the file system it    *)
(* leaves.                                                                 *)

Exists(fs, loc) == loc \in fs.dirs \/ loc \in DOMAIN fs.files

\* the kernel's walk of a relative path from the working directory: every
\* component but the last must be a directory
RECURSIVE Walk(_, _, _)
Walk(fs, cur, comps) ==
    IF comps = <<>> THEN [err |-> "none", loc |-> cur]
    ELSE IF cur \in DOMAIN fs.files THEN [err |-> "ENOTDIR", loc |-> cur]
    ELSE IF cur \notin fs.dirs THEN [err |-> "ENOENT", loc |-> cur]
    ELSE Walk(fs,
              IF Head(comps) = DotDot THEN Parent(cur) ELSE Append(cur, Head(comps)),
              Tail(comps))

Locate(fs, P) == Walk(fs, CwdAbs, P)

\* Path.exists, Path.is_dir, Path.is_file: ENOENT and ENOTDIR read as False
exists(fs, P) == LET w == Locate(fs, P) IN w.err = "none" /\ Exists(fs, w.loc)
is_dir(fs, P) == LET w == Locate(fs, P) IN w.err = "none" /\ w.loc \in fs.dirs
is_file(fs, P) == LET w == Locate(fs, P) IN w.err = "none" /\ w.loc \in DOMAIN fs.files

EndsDotDot(P) == P # <<>> /\ P[Len(P)] = DotDot

Under(loc, top) == IF IsPrefix(top, loc) THEN TRUE ELSE FALSE

Children(fs, loc) == {q \in fs.dirs \cup DOMAIN fs.files : q # <<>> /\ Parent(q) = loc}

RemoveTree(fs, loc) ==
    [dirs |-> {q \in fs.dirs : ~IsPrefix(loc, q)},
     files |-> [q \in {x \in DOMAIN fs.files : ~IsPrefix(loc, x)} |-> fs.files[q]]]

RemoveBelow(fs, loc) ==
    [dirs |-> {q \in fs.dirs : q = loc \/ ~IsPrefix(loc, q)},
     files |-> [q \in {x \in DOMAIN fs.files : ~IsPrefix(loc, x)} |-> fs.files[q]]]

\* os.mkdir
os_mkdir(fs, P) ==
    LET w == Locate(fs, P)
    IN  IF w.err # "none" THEN [err |-> w.err, fs |-> fs]
        ELSE IF Exists(fs, w.loc) THEN [err |-> "EEXIST", fs |-> fs]
        ELSE [err |-> "none", fs |-> [fs EXCEPT !.dirs = @ \cup {w.loc}]]

\* Path.mkdir left out: nothing is made
mkdir_skipped(fs, P) == [err |-> "none", fs |-> fs]

\* Path.mkdir(parents=True, exist_ok=True)
RECURSIVE mkdir_parents(_, _)
mkdir_parents(fs, P) ==
    LET r == os_mkdir(fs, P)
    IN  IF r.err = "none" THEN r
        ELSE IF r.err = "ENOENT"
        THEN IF PathParent(P) = P THEN r
             ELSE LET up == mkdir_parents(fs, PathParent(P))
                  IN  IF up.err # "none" THEN up
                      ELSE LET again == os_mkdir(up.fs, P)
                           IN  IF again.err = "none" THEN again
                               ELSE IF again.err # "ENOENT" /\ is_dir(up.fs, P)
                                    THEN [err |-> "none", fs |-> up.fs]
                                    ELSE again
        ELSE IF is_dir(fs, P) THEN [err |-> "none", fs |-> fs]
        ELSE r

\* Path.mkdir(exist_ok=True)
mkdir_exist_ok(fs, P) ==
    LET r == os_mkdir(fs, P)
    IN  IF r.err = "none" \/ r.err = "ENOENT" THEN r
        ELSE IF is_dir(fs, P) THEN [err |-> "none", fs |-> fs]
        ELSE r

\* what a text-mode read returns for the stored text: "\r\n" and "\r" come back as "\n"
RECURSIVE UniversalNewlines(_)
UniversalNewlines(raw) ==
    IF raw = <<>> THEN <<>>
    ELSE IF Head(raw) = CR
         THEN IF Len(raw) >= 2 /\ raw[2] = LF
              THEN <<LF>> \o UniversalNewlines(Tail(Tail(raw)))
              ELSE <<LF>> \o UniversalNewlines(Tail(raw))
         ELSE <<Head(raw)>> \o UniversalNewlines(Tail(raw))

\* Path.read_text(encoding='utf-8') of an existing regular file
read_text(fs, P) == UniversalNewlines(fs.files[Locate(fs, P).loc])

\* Path.write_text(data, encoding='utf-8'): "\n" is os.linesep on POSIX, so data is stored as given
write_text(fs, P, data) ==
    LET w == Locate(fs, P)
    IN  IF w.err # "none" THEN [err |-> w.err, fs |-> fs]
        ELSE IF w.loc \in fs.dirs THEN [err |-> "EISDIR", fs |-> fs]
        ELSE [err |-> "none",
              fs |-> [fs EXCEPT !.files =
                         [q \in DOMAIN fs.files \cup {w.loc} |->
                             IF q = w.loc THEN data ELSE fs.files[q]]]]

\* Path.unlink of an existing non-directory
unlink(fs, P) ==
    LET w == Locate(fs, P)
    IN  [err |-> "none",
         fs |-> [fs EXCEPT !.files = [q \in DOMAIN fs.files \ {w.loc} |-> fs.files[q]]]]

\* rmtree that removes the named directory and leaves its entries behind
rmtree_shallow(fs, P) ==
    LET w == Locate(fs, P)
    IN  IF w.loc \notin fs.dirs THEN [err |-> "ENOTDIR", fs |-> fs]
        ELSE [err |-> "none", fs |-> [fs EXCEPT !.dirs = @ \ {w.loc}]]

\* shutil.rmtree of an existing directory: the entries go first, then os.rmdir(path),
\* which fails on a path ending in ".." once its named directory is gone
rmtree(fs, P) ==
    LET w == Locate(fs, P)
    IN  IF w.loc \notin fs.dirs THEN [err |-> "ENOTDIR", fs |-> fs]
        ELSE IF EndsDotDot(P) THEN [err |-> "ENOENT", fs |-> RemoveBelow(fs, w.loc)]
        ELSE [err |-> "none", fs |-> RemoveTree(fs, w.loc)]

\* the subtree at loc moved to dst
MoveTree(fs, loc, dst) ==
    LET moved(q) == dst \o SubSeq(q, Len(loc) + 1, Len(q))
        keptD == {q \in fs.dirs : ~IsPrefix(loc, q) /\ ~IsPrefix(dst, q)}
        keptF == {q \in DOMAIN fs.files : ~IsPrefix(loc, q) /\ ~IsPrefix(dst, q)}
        movD == {q \in fs.dirs : IsPrefix(loc, q)}
        movF == {q \in DOMAIN fs.files : IsPrefix(loc, q)}
    IN  [dirs |-> keptD \cup {moved(q) : q \in movD},
         files |-> [x \in keptF \cup {moved(q) : q \in movF} |->
                       IF x \in keptF THEN fs.files[x]
                       ELSE fs.files[CHOOSE q \in movF : moved(q) = x]]]

\* os.rename (rename(2)) of an existing source
os_rename(fs, P, Q) ==
    LET wo == Locate(fs, P)
        wn == Locate(fs, Q)
    IN  IF wo.err # "none" THEN [err |-> wo.err, fs |-> fs]
        ELSE IF wn.err # "none" THEN [err |-> wn.err, fs |-> fs]
        ELSE IF ~Exists(fs, wo.loc) THEN [err |-> "ENOENT", fs |-> fs]
        ELSE IF EndsDotDot(P) \/ EndsDotDot(Q) THEN [err |-> "EBUSY", fs |-> fs]
        ELSE IF wo.loc = wn.loc THEN [err |-> "none", fs |-> fs]
        ELSE IF wo.loc \in fs.dirs
        THEN IF IsPrefix(wo.loc, wn.loc) THEN [err |-> "EINVAL", fs |-> fs]
             ELSE IF wn.loc \in DOMAIN fs.files THEN [err |-> "ENOTDIR", fs |-> fs]
             ELSE IF wn.loc \in fs.dirs /\ Children(fs, wn.loc) # {}
                  THEN [err |-> "ENOTEMPTY", fs |-> fs]
             ELSE IF IsPrefix(wn.loc, wo.loc) THEN [err |-> "ENOTEMPTY", fs |-> fs]
             ELSE [err |-> "none", fs |-> MoveTree(fs, wo.loc, wn.loc)]
        ELSE IF wn.loc \in fs.dirs THEN [err |-> "EISDIR", fs |-> fs]
             ELSE [err |-> "none", fs |-> MoveTree(fs, wo.loc, wn.loc)]

-----------------------------------------------------------------------------
(* The operations.  Each returns [outcome, ret, fs]: outcome is "ok" or    *)
(* the kind of the failure the raise site stands for, ret the returned     *)
(* text, line the source line that raised.  ValueError is ValidationError; *)
(* the RuntimeErrors are told apart by the statement that raises them;     *)
(* whatever the handlers' last "except Exception" wraps is IOFailure.      *)

Ok(ret, fs) == [outcome |-> "ok", line |-> 0, ret |-> ret, fs |-> fs]
Fail(kind, line, fs) == [outcome |-> kind, line |-> line, ret |-> <<>>, fs |-> fs]

Max(a, b) == IF a >= b THEN a ELSE b

\* str < str by code points
RECURSIVE NameLess(_, _)
NameLess(x, y) ==
    IF y = <<>> THEN FALSE
    ELSE IF x = <<>> THEN TRUE
    ELSE IF CodePoint(Head(x)) # CodePoint(Head(y)) THEN CodePoint(Head(x)) < CodePoint(Head(y))
    ELSE NameLess(Tail(x), Tail(y))

\* sorted(names)
RECURSIVE SortNames(_)
SortNames(S) ==
    IF S = {} THEN <<>>
    ELSE LET least == CHOOSE x \in S : \A y \in S \ {x} : NameLess(x, y)
         IN  <<least>> \o SortNames(S \ {least})

DirectoryHeader == <<"D", "i", "r", "e", "c", "t", "o", "r", "y", ":", " ">>

\* the directory branch of view without the test of line 106 for hidden names
listing_all(fs, path, loc) ==
    LET names == SortNames({q[Len(q)] : q \in Children(fs, loc)})
        items == [i \in 1..Len(names) |->
                     IF Append(loc, names[i]) \in fs.dirs
                     THEN Append(names[i], SLASH) ELSE names[i]]
    IN  DirectoryHeader \o path \o <<LF>>
          \o Join([i \in 1..Len(items) |-> <<"-", " ">> \o items[i]], <<LF>>)

\* the directory branch of view, lines 103-111
listing(fs, path, loc) ==
    LET names == SortNames({q[Len(q)] : q \in Children(fs, loc)})
        shown == SelectSeq(names, LAMBDA n : ~StartsWith(n, <<DOT>>))
        items == [i \in 1..Len(shown) |->
                     IF Append(loc, shown[i]) \in fs.dirs
                     THEN Append(shown[i], SLASH) ELSE shown[i]]
    IN  DirectoryHeader \o path \o <<LF>>
          \o Join([i \in 1..Len(items) |-> <<"-", " ">> \o items[i]], <<LF>>)

\* view that makes the ancestors of the path before it looks, as create does
view_mkdir(fs, path, view_range) ==
    LET v == validate_path(path)
    IN  IF ~v.ok THEN Fail("ValidationError", v.line, fs)
        ELSE LET made == mkdir_parents(fs, PathParent(v.full_path)).fs
             IN  IF is_dir(made, v.full_path)
                 THEN Ok(listing(made, path, Locate(made, v.full_path).loc), made)
                 ELSE IF ~is_file(made, v.full_path) THEN Fail("NotFoundError", 117, made)
                 ELSE Ok(Join(splitlines(read_text(made, v.full_path), FALSE), <<LF>>), made)

\* view_range is <<>> for None
view(fs, path, view_range) ==
    LET v == validate_path(path)
    IN  IF ~v.ok THEN Fail("ValidationError", v.line, fs)
        ELSE IF is_dir(fs, v.full_path)
        THEN Ok(listing(fs, path, Locate(fs, v.full_path).loc), fs)
        ELSE IF ~is_file(fs, v.full_path) THEN Fail("NotFoundError", 117, fs)
        ELSE LET content == read_text(fs, v.full_path)
                 lines == splitlines(content, FALSE)
                 shown == IF view_range # <<>>
                          THEN LET start_line == Max(1, view_range[1]) - 1
                                   end_line == IF view_range[2] = -1 THEN Len(lines)
                                               ELSE view_range[2]
                               IN  PySlice(lines, start_line, end_line)
                          ELSE lines
             IN  Ok(Join(shown, <<LF>>), fs)

create(fs, path, file_text) ==
    LET v == validate_path(path)
    IN  IF ~v.ok THEN Fail("ValidationError", v.line, fs)
        ELSE IF exists(fs, v.full_path) THEN Fail("ConflictError", 165, fs)
        ELSE LET made == mkdir_parents(fs, PathParent(v.full_path))
             IN  IF made.err # "none" THEN Fail("IOFailure", 189, made.fs)
                 ELSE LET written == write_text(made.fs, v.full_path, file_text)
                      IN  IF written.err # "none" THEN Fail("IOFailure", 189, written.fs)
                          ELSE Ok(<<"Successfully created ">> \o path, written.fs)

str_replace(fs, path, old_str, new_str) ==
    LET v == validate_path(path)
    IN  IF ~v.ok THEN Fail("ValidationError", v.line, fs)
        ELSE IF ~is_file(fs, v.full_path) THEN Fail("NotFoundError", 208, fs)
        ELSE LET content == read_text(fs, v.full_path)
                 n == count(content, old_str)
             IN  IF n = 0 THEN Fail("AmbiguousMatchError", 215, fs)
                 ELSE IF n > 1 THEN Fail("AmbiguousMatchError", 217, fs)
                 ELSE LET new_content == replace(content, old_str, new_str)
                          written == write_text(fs, v.full_path, new_content)
                      IN  Ok(<<"Successfully replaced string in ">> \o path, written.fs)

\* lines.insert with the 1-indexed line number taken as the index
ListInsertAfter(lines, insert_idx, x) ==
    LET k == IF insert_idx + 1 > Len(lines) THEN Len(lines) ELSE insert_idx + 1
    IN  SubSeq(lines, 1, k) \o <<x>> \o SubSeq(lines, k + 1, Len(lines))

\* lines.insert(insert_idx, insert_text) for 0 <= insert_idx <= len(lines)
ListInsert(lines, insert_idx, x) ==
    SubSeq(lines, 1, insert_idx) \o <<x>> \o SubSeq(lines, insert_idx + 1, Len(lines))

\* insert with the bound of line 264 off by one: insert_idx >= len(lines) refused
insert_strict(fs, path, line, insert_line) ==
    LET v == validate_path(path)
    IN  IF ~v.ok THEN Fail("ValidationError", v.line, fs)
        ELSE IF ~is_file(fs, v.full_path) THEN Fail("NotFoundError", 256, fs)
        ELSE LET content == read_text(fs, v.full_path)
                 lines == splitlines(content, TRUE)
                 insert_idx == line - 1
             IN  IF insert_idx < 0 \/ insert_idx >= Len(lines) THEN Fail("RangeError", 265, fs)
                 ELSE LET insert_text == IF ~EndsWith(insert_line, <<LF>>)
                                         THEN insert_line \o <<LF>> ELSE insert_line
                          written == write_text(fs, v.full_path,
                                         Concat(ListInsert(lines, insert_idx, insert_text)))
                      IN  Ok(<<"Successfully inserted line in ">> \o path, written.fs)

insert(fs, path, line, insert_line) ==
    LET v == validate_path(path)
    IN  IF ~v.ok THEN Fail("ValidationError", v.line, fs)
        ELSE IF ~is_file(fs, v.full_path) THEN Fail("NotFoundError", 256, fs)
        ELSE LET content == read_text(fs, v.full_path)
                 lines == splitlines(content, TRUE)
                 insert_idx == line - 1
             IN  IF insert_idx < 0 \/ insert_idx > Len(lines) THEN Fail("RangeError", 265, fs)
                 ELSE LET insert_text == IF ~EndsWith(insert_line, <<LF>>)
                                         THEN insert_line \o <<LF>> ELSE insert_line
                          written == write_text(fs, v.full_path,
                                         Concat(ListInsert(lines, insert_idx, insert_text)))
                      IN  Ok(<<"Successfully inserted line in ">> \o path, written.fs)

delete(fs, path) ==
    LET v == validate_path(path)
    IN  IF ~v.ok THEN Fail("ValidationError", v.line, fs)
        ELSE IF ~exists(fs, v.full_path) THEN Fail("NotFoundError", 307, fs)
        ELSE IF is_dir(fs, v.full_path)
        THEN LET gone == rmtree(fs, v.full_path)
             IN  IF gone.err # "none" THEN Fail("IOFailure", 325, gone.fs)
                 ELSE Ok(<<"Successfully deleted directory ">> \o path, gone.fs)
        ELSE Ok(<<"Successfully deleted ">> \o path, unlink(fs, v.full_path).fs)

\* rename that makes the destination's ancestors before it looks at what exists
rename_eager(fs, old_path, new_path) ==
    LET vo == validate_path(old_path)
        vn == validate_path(new_path)
    IN  IF ~vo.ok THEN Fail("ValidationError", vo.line, fs)
        ELSE IF ~vn.ok THEN Fail("ValidationError", vn.line, fs)
        ELSE LET made == mkdir_parents(fs, PathParent(vn.full_path))
             IN  IF ~exists(made.fs, vo.full_path) THEN Fail("NotFoundError", 345, made.fs)
                 ELSE IF exists(made.fs, vn.full_path) THEN Fail("ConflictError", 348, made.fs)
                 ELSE IF made.err # "none" THEN Fail("IOFailure", 364, made.fs)
                 ELSE LET moved == os_rename(made.fs, vo.full_path, vn.full_path)
                      IN  IF moved.err # "none" THEN Fail("IOFailure", 364, moved.fs)
                          ELSE Ok(<<"Successfully renamed ">> \o old_path \o <<" to ">> \o new_path,
                                  moved.fs)

rename(fs, old_path, new_path) ==
    LET vo == validate_path(old_path)
        vn == validate_path(new_path)
    IN  IF ~vo.ok THEN Fail("ValidationError", vo.line, fs)
        ELSE IF ~vn.ok THEN Fail("ValidationError", vn.line, fs)
        ELSE IF ~exists(fs, vo.full_path) THEN Fail("NotFoundError", 345, fs)
        ELSE IF exists(fs, vn.full_path) THEN Fail("ConflictError", 348, fs)
        ELSE LET made == mkdir_parents(fs, PathParent(vn.full_path))
             IN  IF made.err # "none" THEN Fail("IOFailure", 364, made.fs)
                 ELSE LET moved == os_rename(made.fs, vo.full_path, vn.full_path)
                      IN  IF moved.err # "none" THEN Fail("IOFailure", 364, moved.fs)
                          ELSE Ok(<<"Successfully renamed ">> \o old_path \o <<" to ">> \o new_path,
                                  moved.fs)

\* never raises: a failure comes back as the returned text
clear_all_memory(fs) ==
    IF exists(fs, memory_root)
    THEN LET gone == rmtree(fs, memory_root)
         IN  IF gone.err # "none" THEN Ok(<<"Error clearing memories: ", gone.err>>, gone.fs)
             ELSE LET made == mkdir_exist_ok(gone.fs, memory_root)
                  IN  IF made.err # "none"
                      THEN Ok(<<"Error clearing memories: ", made.err>>, made.fs)
                      ELSE Ok(<<"All memories have been cleared">>, made.fs)
    ELSE Ok(<<"All memories have been cleared">>, fs)

-----------------------------------------------------------------------------
(* The calls explored.  In paths mode the paths vary and the texts are     *)
(* few; in text mode one leaf takes every text over the alphabet.          *)

P(suffix) == MountPrefix \o suffix

PathsModePaths ==
    { MountPrefix,                                      \* /memories
      P(<<"/", "a">>),                                  \* /memories/a
      P(<<"/", "b">>),                                  \* /memories/b
      P(<<"/", "a", "/", "b">>),                        \* /memories/a/b
      P(<<"/", ".", "h">>),                             \* /memories/.h
      P(<<"a">>),                                       \* /memoriesa
      P(<<"/", "b", "/", ".", ".", "/", "a">>),         \* /memories/b/../a
      P(<<"/", ".", ".", "/", "a">>),                   \* /memories/../a
      P(<<"/", "a", "/", ".", ".", "/", ".", ".">>),    \* /memories/a/../..
      <<"/", "a">> }                                    \* /a

TextModePaths == { P(<<"/", "a">>) }

Alphabet == {"a", LF, CR}

VPaths == IF mode = "paths" THEN PathsModePaths ELSE TextModePaths

\* longest stored text explored
TextCap == IF mode = "paths" THEN 1 ELSE MaxText

CreateTexts == IF mode = "paths" THEN {<<>>, <<"a">>} ELSE StringsUpTo(Alphabet, MaxText)

OldTexts == IF mode = "paths" THEN {<<"a">>} ELSE StringsUpTo(Alphabet, MaxOld)

NewTexts == IF mode = "paths" THEN {<<>>} ELSE StringsUpTo(Alphabet, 1)

InsertTexts == IF mode = "paths" THEN {<<>>} ELSE StringsUpTo(Alphabet, 1) \cup {<<"a", LF>>}

InsertLines == IF mode = "paths" THEN {1} ELSE 0..(MaxText + 2)

ViewRanges ==
    IF mode = "paths" THEN {<<>>}
    ELSE {<<>>} \cup {<<s, e>> : s \in 0..MaxText, e \in {-1} \cup 1..MaxText}

StoreNodes(fs) == {q \in fs.dirs \cup DOMAIN fs.files : IsPrefix(RootAbs, q) /\ q # RootAbs}

Explored(fs) ==
    /\ \A q \in DOMAIN fs.files : Len(fs.files[q]) <= TextCap
    /\ Cardinality(StoreNodes(fs)) <= MaxNodes

-----------------------------------------------------------------------------
(* The session recorder.  An event is [event_type, timestamp, data]; data  *)
(* stands for the event's other fields: "json" for values json.dump writes *)
(* and json.load reads back as they were (str, int, bool, None, lists and  *)
(* dicts of these), "truncated" for a result cut at 1000 characters,       *)
(* "opaque" for a parameters dict holding a value json.dump cannot write.  *)

EventTypes ==
    {"user_input", "llm_request", "tool_call", "tool_result", "llm_response",
     "token_usage", "error"}

\* readings of datetime.now()
Clock == {0, 1}

\* how the file system answers a save: the file is written, open() fails, or the
\* write fails after open() has truncated the file
SaveOutcomes == {"written", "open_fails", "write_fails"}

\* the trace of __init__, lines 53-59
NewTrace == [events |-> <<>>, ended |-> FALSE]

NoDocument == [state |-> "none", trace |-> NewTrace]

\* json.dump raises TypeError on a value it cannot write
Serializable(tr) == \A i \in 1..Len(tr.events) : tr.events[i].data # "opaque"

\* _save: returns whether the document was written and what the file holds
save(tr, file, io) ==
    IF io = "open_fails" THEN [ok |-> FALSE, file |-> file]
    ELSE IF io = "write_fails" \/ ~Serializable(tr)
    THEN [ok |-> FALSE, file |-> [state |-> "partial", trace |-> NewTrace]]
    ELSE [ok |-> TRUE, file |-> [state |-> "whole", trace |-> tr]]

\* _add_event with the new event put first
add_event_first(tr, event_type, data, now) ==
    [tr EXCEPT !.events = <<[event_type |-> event_type, timestamp |-> now, data |-> data]>> \o @]

\* _add_event up to the save: self.trace["events"].append(event)
add_event(tr, event_type, data, now) ==
    [tr EXCEPT !.events = Append(@, [event_type |-> event_type, timestamp |-> now, data |-> data])]

\* log_tool_result: a result longer than 1000 characters is cut
result_data(result) == IF result = "long" THEN "truncated" ELSE "json"

-----------------------------------------------------------------------------
(* The state machine.  last names the latest call, how it ended and the    *)
(* source line that raised.                                                *)

FS == [dirs |-> dirs, files |-> files]

NoFiles == [q \in {} |-> <<>>]

\* the working directory before the tool is constructed
BareFS == [dirs |-> {<<>>, CwdAbs}, files |-> NoFiles]

\* __init__: memory_root.mkdir(exist_ok=True, parents=True)
init_fs == mkdir_parents(BareFS, memory_root).fs

Call(op, r) ==
    /\ Explored(r.fs)
    /\ dirs' = r.fs.dirs
    /\ files' = r.fs.files
    /\ last' = [op |-> op, outcome |-> r.outcome, line |-> r.line]
    /\ UNCHANGED <<mode, trace, trace_file>>

InitIn(m) ==
    /\ mode = m
    /\ dirs = init_fs.dirs
    /\ files = init_fs.files
    /\ last = [op |-> "init", outcome |-> "ok", line |-> 0]
    /\ trace = NewTrace
    /\ \E io \in (IF m = "trace" THEN SaveOutcomes ELSE {"written"}) :
          trace_file = save(NewTrace, NoDocument, io).file

Init == InitIn("paths")

InitText == InitIn("text")

\* the recorder alone: SessionTrace.__init__, whose first save may fail
InitTrace == InitIn("trace")

View == \E p \in VPaths, r \in ViewRanges : Call("view", view(FS, p, r))

Create == \E p \in VPaths, t \in CreateTexts : Call("create", create(FS, p, t))

StrReplace ==
    \E p \in VPaths, old \in OldTexts, new \in NewTexts :
        Call("str_replace", str_replace(FS, p, old, new))

Insert ==
    \E p \in VPaths, n \in InsertLines, t \in InsertTexts : Call("insert", insert(FS, p, n, t))

Delete == \E p \in VPaths : Call("delete", delete(FS, p))

Rename == \E p \in VPaths, q \in VPaths : Call("rename", rename(FS, p, q))

ClearAllMemory == Call("clear_all_memory", clear_all_memory(FS))

Next == View \/ Create \/ StrReplace \/ Insert \/ Delete \/ Rename \/ ClearAllMemory

Spec == Init /\ [][Next]_vars

SpecText == InitText /\ [][Next]_vars

\* the event list explored has room for one more event
Room == Len(trace.events) < MaxEvents

\* one log call: the event is appended, then the document is saved; a failed save
\* is logged (line 76) and the call returns
Log(op, event_type, data, now, io) ==
    LET tr == add_event(trace, event_type, data, now)
        saved == save(tr, trace_file, io)
    IN  /\ trace' = tr
        /\ trace_file' = saved.file
        /\ last' = [op |-> op, outcome |-> IF saved.ok THEN "ok" ELSE "save_failed",
                    line |-> IF saved.ok THEN 0 ELSE 76]
        /\ UNCHANGED <<dirs, files, mode>>

LogUserInput ==
    /\ Room
    /\ \E now \in Clock, io \in SaveOutcomes :
          Log("log_user_input", "user_input", "json", now, io)

LogLlmRequest ==
    /\ Room
    /\ \E now \in Clock, io \in SaveOutcomes :
          Log("log_llm_request", "llm_request", "json", now, io)

LogToolCall ==
    /\ Room
    /\ \E now \in Clock, io \in SaveOutcomes, parameters \in {"json", "opaque"} :
          Log("log_tool_call", "tool_call", parameters, now, io)

LogToolResult ==
    /\ Room
    /\ \E now \in Clock, io \in SaveOutcomes, result \in {"short", "long"} :
          Log("log_tool_result", "tool_result", result_data(result), now, io)

LogLlmResponse ==
    /\ Room
    /\ \E now \in Clock, io \in SaveOutcomes :
          Log("log_llm_response", "llm_response", "json", now, io)

LogTokenUsage ==
    /\ Room
    /\ \E now \in Clock, io \in SaveOutcomes :
          Log("log_token_usage", "token_usage", "json", now, io)

LogError ==
    /\ Room
    /\ \E now \in Clock, io \in SaveOutcomes :
          Log("log_error", "error", "json", now, io)

\* finalize: end_time is set and the document saved
Finalize ==
    /\ \E io \in SaveOutcomes :
          LET tr == [trace EXCEPT !.ended = TRUE]
              saved == save(tr, trace_file, io)
          IN  /\ trace' = tr
              /\ trace_file' = saved.file
              /\ last' = [op |-> "finalize", outcome |-> IF saved.ok THEN "ok" ELSE "save_failed",
                          line |-> IF saved.ok THEN 0 ELSE 76]
    /\ UNCHANGED <<dirs, files, mode>>

NextTrace ==
    \/ LogUserInput \/ LogLlmRequest \/ LogToolCall \/ LogToolResult
    \/ LogLlmResponse \/ LogTokenUsage \/ LogError \/ Finalize

SpecTrace == InitTrace /\ [][NextTrace]_vars

-----------------------------------------------------------------------------
(* The claims.  Each is stated of every call that can be made in a state:  *)
(* the formula applies the operation to the state's file system and looks  *)
(* at what it returns and what it leaves.                                  *)

Accepted(p) == validate_path(p).ok

FullPath(p) == validate_path(p).full_path

\* the physical location a virtual path stands for
LocationOf(p) == resolve(FullPath(p))

\* the call r failed validation and touched nothing
Rejected(r) == r.outcome = "ValidationError" /\ r.fs = FS /\ r.ret = <<>>

\* every operation called with path p (rename with p on either side) satisfies Q
EveryCallWith(p, others, Q(_)) ==
    /\ \A r \in ViewRanges : Q(view(FS, p, r))
    /\ \A t \in CreateTexts : Q(create(FS, p, t))
    /\ \A old \in OldTexts, new \in NewTexts : Q(str_replace(FS, p, old, new))
    /\ \A n \in InsertLines, t \in InsertTexts : Q(insert(FS, p, n, t))
    /\ Q(delete(FS, p))
    /\ \A q \in others : Q(rename(FS, p, q)) /\ Q(rename(FS, q, p))

\* paths under the mount prefix whose ".." segments lead out of the store root
EscapingPaths ==
    { P(<<"/", ".", ".", "/", "a">>),                             \* /memories/../a
      P(<<"/", "a", "/", ".", ".", "/", ".", ".">>),              \* /memories/a/../..
      P(<<"/", ".", ".">>),                                       \* /memories/..
      P(<<".", ".">>),                                            \* /memories..
      P(<<"/", "a", "/", ".", ".", "/", ".", ".", "/", "b">>),    \* /memories/a/../../b
      P(<<"/", ".", ".", "/", ".", ".", "/", ".", ".", "/", "a">>) } \* /memories/../../../a

\* paths that do not start with the mount prefix
UnprefixedPaths ==
    { <<>>,                                                       \* the empty path
      <<"/", "a">>,                                               \* /a
      Memories \o <<"/", "a">>,                                   \* memories/a
      <<"/">> \o Memory \o <<"/", "a">>,                          \* /memory/a
      <<"/", "a">> \o MountPrefix,                                \* /a/memories
      <<"/", "m", "e", "m", "o", "r", "i", "e">> }                \* /memorie

\* where the segments after the mount prefix lead, taken from the store root
LeadsTo(p) == Normalize(RootAbs, PathParts(SubSeq(p, Len(MountPrefix) + 1, Len(p))))

LeavesRoot(p) == StartsWith(p, MountPrefix) /\ ~IsPrefix(RootAbs, LeadsTo(p))

\* C1: the location the resolver returns for an accepted path lies in the store
\* root's subtree, in every reachable state; every operation called with a path
\* that leads out of the root fails with ValidationError and leaves the file
\* system as it was.
C1_Containment ==
    /\ \A p \in VPaths \cup EscapingPaths \cup UnprefixedPaths :
          Accepted(p) =>
             /\ IsPrefix(RootAbs, LocationOf(p))
             /\ LET w == Locate(FS, FullPath(p))
                IN  w.err = "none" => IsPrefix(RootAbs, w.loc)
    /\ \A p \in EscapingPaths : LeavesRoot(p)
    /\ \A p \in VPaths \cup EscapingPaths :
          LeavesRoot(p) => EveryCallWith(p, VPaths \cup EscapingPaths, Rejected)

\* a rename was refused for a path that escapes, in a store that holds documents
C1_Witness ==
    /\ last.op = "rename" /\ last.outcome = "ValidationError" /\ last.line = 81
    /\ StoreNodes(FS) # {}

\* C2: every operation called with a path that lacks the mount prefix, rename with
\* it as old or as new path whatever the other path is, fails with ValidationError
\* and leaves the document tree as it was.
C2_PrefixRequired ==
    \A p \in VPaths \cup UnprefixedPaths :
        ~StartsWith(p, MountPrefix) =>
            EveryCallWith(p, VPaths \cup UnprefixedPaths \cup EscapingPaths, Rejected)

\* a rename was refused for a path without the prefix, in a store that holds documents
C2_Witness ==
    /\ last.op = "rename" /\ last.outcome = "ValidationError" /\ last.line = 71
    /\ StoreNodes(FS) # {}

\* C3: two distinct accepted virtual paths stand for two distinct physical
\* locations, so creating a document at one never makes a leaf appear at another.
C3_NoAliasing ==
    \A p \in VPaths, q \in VPaths :
        (p # q /\ Accepted(p) /\ Accepted(q)) =>
            /\ LocationOf(p) # LocationOf(q)
            /\ \A t \in CreateTexts :
                  LET r == create(FS, p, t)
                  IN  (r.outcome = "ok" /\ is_file(r.fs, FullPath(q))) => is_file(FS, FullPath(q))

\* C4: create never overwrites: where a document exists at the location of p,
\* create(p, text) fails with ConflictError for every text and leaves every
\* document as it was.
C4_CreateNeverOverwrites ==
    \A p \in VPaths, t \in CreateTexts :
        (Accepted(p) /\ Exists(FS, LocationOf(p))) =>
            LET r == create(FS, p, t)
            IN  r.outcome = "ConflictError" /\ r.fs = FS

\* the stored text of the leaf at p, and the lines a view of it shows
StoredText(fs, p) == fs.files[Locate(fs, FullPath(p)).loc]

ViewLines(fs, p) == splitlines(read_text(fs, FullPath(p)), FALSE)

\* text, and text less one trailing line terminator ("\n", "\r" or "\r\n")
LessOneTerminator(text) ==
    {text}
      \cup {SubSeq(text, 1, Len(text) - 1) : x \in {y \in {LF, CR} : EndsWith(text, <<y>>)}}
      \cup {SubSeq(text, 1, Len(text) - 2) : x \in {y \in {CR} : EndsWith(text, <<CR, LF>>)}}

\* C5: a successful create(p, text) at a path that held no document, followed by
\* view(p) with no range, returns text, give or take one trailing newline.
C5_RoundTrip ==
    \A p \in VPaths, t \in CreateTexts :
        LET r == create(FS, p, t)
        IN  r.outcome = "ok" => view(r.fs, p, <<>>).ret \in LessOneTerminator(t)

\* the positions at which sub matches s
Positions(s, sub) ==
    {i \in 1..(Len(s) + 1) : i + Len(sub) - 1 <= Len(s) /\ SubSeq(s, i, i + Len(sub) - 1) = sub}

\* C6: replace(p, old, new) on an existing leaf succeeds when old matches the
\* content at exactly one position; at none, or at two or more, it fails with
\* AmbiguousMatchError and leaves the leaf as it was.
C6_ReplaceExactlyOnce ==
    \A p \in VPaths :
        (Accepted(p) /\ is_file(FS, FullPath(p))) =>
            \A old \in OldTexts, new \in NewTexts :
                LET r == str_replace(FS, p, old, new)
                IN  IF Cardinality(Positions(read_text(FS, FullPath(p)), old)) = 1
                    THEN r.outcome = "ok"
                    ELSE r.outcome = "AmbiguousMatchError" /\ r.fs = FS

\* C7: after a successful replace(p, old, new) the text of p is its prior text with
\* one occurrence of old replaced by new and every character before and after
\* it unchanged; replace fails with NotFoundError when p is no existing leaf.
C7_ReplaceSubstitutes ==
    \A p \in VPaths, old \in OldTexts, new \in NewTexts :
        Accepted(p) =>
            LET r == str_replace(FS, p, old, new)
            IN  IF ~is_file(FS, FullPath(p)) THEN r.outcome = "NotFoundError"
                ELSE r.outcome = "ok" =>
                        LET before == StoredText(FS, p)
                            after == StoredText(r.fs, p)
                        IN  \E i \in Positions(before, old) :
                               after = SubSeq(before, 1, i - 1) \o new
                                         \o SubSeq(before, i + Len(old), Len(before))

\* the line numbers tried against a leaf
ClaimLines == (-1)..(MaxText + 3)

\* C8: insert(p, n, text) on an existing leaf of c lines fails with RangeError and
\* leaves the leaf as it was exactly when n < 1 or n > c + 1, and succeeds for
\* every n from 1 to c + 1; an empty leaf has c = 0 and takes n = 1 only.
C8_InsertRange ==
    \A p \in VPaths :
        (Accepted(p) /\ is_file(FS, FullPath(p))) =>
            \A n \in ClaimLines, t \in InsertTexts :
                LET c == Len(ViewLines(FS, p))
                    r == insert(FS, p, n, t)
                IN  /\ (StoredText(FS, p) = <<>> => c = 0)
                    /\ IF n < 1 \/ n > c + 1
                       THEN r.outcome = "RangeError" /\ r.fs = FS
                       ELSE r.outcome = "ok"

\* an insert was refused for its line number on a leaf of two or more lines
C8_Witness ==
    /\ last.op = "insert" /\ last.outcome = "RangeError"
    /\ \E p \in VPaths : Accepted(p) /\ is_file(FS, FullPath(p)) /\ Len(ViewLines(FS, p)) >= 2

\* a text of at most one line, and the line it reads as
SingleLine(t) == Len(splitlines(t, FALSE)) <= 1

LineOf(t) == IF splitlines(t, FALSE) = <<>> THEN <<>> ELSE splitlines(t, FALSE)[1]

\* C9: after insert(p, n, text) with 1 <= n <= c and single-line text, view(p)
\* returns lines 1..n-1 as they were, then text as line n, then the former
\* lines n..c.
C9_InsertShifts ==
    \A p \in VPaths :
        (Accepted(p) /\ is_file(FS, FullPath(p))) =>
            LET L == ViewLines(FS, p)
            IN  \A n \in 1..Len(L), t \in InsertTexts :
                    SingleLine(t) =>
                        LET r == insert(FS, p, n, t)
                        IN  /\ r.outcome = "ok"
                            /\ view(r.fs, p, <<>>).ret =
                                 Join(SubSeq(L, 1, n - 1) \o <<LineOf(t)>> \o SubSeq(L, n, Len(L)),
                                      <<LF>>)

\* the leaf reads as an empty line followed by "a": the last insert put the empty
\* line before the one line the leaf had (an inserted line always ends in "\n")
C9_Witness ==
    /\ last.op = "insert" /\ last.outcome = "ok"
    /\ \E p \in VPaths : Accepted(p) /\ is_file(FS, FullPath(p)) /\ StoredText(FS, p) = <<LF, "a">>

\* C10: after insert(p, c + 1, text) with single-line text on a leaf of c lines,
\* whether or not its content ends with a line terminator, view(p) returns the
\* c former lines followed by text as line c + 1.
C10_InsertAppends ==
    \A p \in VPaths :
        (Accepted(p) /\ is_file(FS, FullPath(p))) =>
            LET L == ViewLines(FS, p)
            IN  \A t \in InsertTexts :
                    SingleLine(t) =>
                        LET r == insert(FS, p, Len(L) + 1, t)
                        IN  /\ r.outcome = "ok"
                            /\ ViewLines(r.fs, p) = L \o <<LineOf(t)>>

\* view(q) with no range finds nothing at q
Absent(fs, q) == view(fs, q, <<>>).outcome = "NotFoundError"

\* every call with path p that is neither a create nor a rename satisfies Q
EveryOtherCallWith(p, Q(_)) ==
    /\ \A r \in ViewRanges : Q(view(FS, p, r))
    /\ \A old \in OldTexts, new \in NewTexts : Q(str_replace(FS, p, old, new))
    /\ \A n \in InsertLines, t \in InsertTexts : Q(insert(FS, p, n, t))
    /\ Q(delete(FS, p))
    /\ Q(clear_all_memory(FS))

\* C11: delete(p) fails with NotFoundError when nothing exists at the location of
\* p; a successful delete of a directory leaves neither the directory nor any
\* descendant and touches nothing else, and view of every path at or below it
\* fails with NotFoundError; a path at which view finds nothing stays that way
\* through every call that is neither create nor rename.
C11_Delete ==
    /\ \A p \in VPaths :
          Accepted(p) =>
             LET r == delete(FS, p)
                 at == Locate(FS, FullPath(p)).loc
             IN  /\ ~Exists(FS, LocationOf(p)) => (r.outcome = "NotFoundError" /\ r.fs = FS)
                 /\ (is_dir(FS, FullPath(p)) /\ r.outcome = "ok") =>
                       /\ \A x \in r.fs.dirs \cup DOMAIN r.fs.files : ~IsPrefix(at, x)
                       /\ \A x \in FS.dirs \cup DOMAIN FS.files :
                             ~IsPrefix(at, x) => /\ x \in r.fs.dirs <=> x \in FS.dirs
                                                 /\ x \in DOMAIN r.fs.files <=> x \in DOMAIN FS.files
                       /\ \A q \in VPaths :
                             (Accepted(q) /\ IsPrefix(at, LocationOf(q))) => Absent(r.fs, q)
    /\ \A q \in VPaths :
          (Accepted(q) /\ Absent(FS, q)) =>
             \A p \in VPaths : EveryOtherCallWith(p, LAMBDA r : Absent(r.fs, q))

\* the last call deleted the store root, a directory: nothing is left at or below it
C11_Witness ==
    /\ last.op = "delete" /\ last.outcome = "ok"
    /\ RootAbs \notin dirs /\ RootAbs \notin DOMAIN files

\* what a directory view returns after its header line
ListingBody(ret, path) == SubSeq(ret, Len(DirectoryHeader) + Len(path) + 2, Len(ret))

\* the location x of the subtree at from, carried to the subtree at to
Carried(x, from, to) == to \o SubSeq(x, Len(from) + 1, Len(x))

\* C12: after a successful rename(old, new) of an existing document to an accepted
\* path with nothing at its location, view(new) returns what view(old) returned
\* (for a directory: the same entries, and every descendant under new with its
\* content unchanged) and view(old) fails with NotFoundError.
C12_RenameMoves ==
    \A old \in VPaths, new \in VPaths :
        (Accepted(old) /\ Accepted(new) /\ exists(FS, FullPath(old))
           /\ ~Exists(FS, LocationOf(new))) =>
            LET r == rename(FS, old, new)
                from == Locate(FS, FullPath(old)).loc
                to == LocationOf(new)
                was == view(FS, old, <<>>)
                now == view(r.fs, new, <<>>)
            IN  r.outcome = "ok" =>
                   /\ Absent(r.fs, old)
                   /\ now.outcome = "ok"
                   /\ IF is_file(FS, FullPath(old)) THEN now.ret = was.ret
                      ELSE ListingBody(now.ret, new) = ListingBody(was.ret, old)
                   /\ \A x \in FS.dirs : IsPrefix(from, x) => Carried(x, from, to) \in r.fs.dirs
                   /\ \A x \in DOMAIN FS.files :
                         IsPrefix(from, x) =>
                            /\ Carried(x, from, to) \in DOMAIN r.fs.files
                            /\ r.fs.files[Carried(x, from, to)] = FS.files[x]

\* C13: rename(old, new) fails with NotFoundError when nothing exists at the
\* location of old, and otherwise with ConflictError when a document exists at the
\* location of new (new = old included); either way the tree is left as it was.
C13_RenameNeverOverwrites ==
    \A old \in VPaths, new \in VPaths :
        (Accepted(old) /\ Accepted(new)) =>
            LET r == rename(FS, old, new)
            IN  IF ~Exists(FS, LocationOf(old))
                THEN r.outcome = "NotFoundError" /\ r.fs = FS
                ELSE Exists(FS, LocationOf(new)) => (r.outcome = "ConflictError" /\ r.fs = FS)

\* the text clear_all_memory returns when it reports success
Cleared == <<"All memories have been cleared">>

\* C14: clear-all never raises, and whenever it returns its success message the
\* store root is a directory with no children and view of the mount prefix lists
\* nothing.
C14_ClearAll ==
    LET r == clear_all_memory(FS)
    IN  /\ r.outcome = "ok"
        /\ r.ret = Cleared =>
              /\ RootAbs \in r.fs.dirs
              /\ Children(r.fs, RootAbs) = {}
              /\ view(r.fs, MountPrefix, <<>>).ret = DirectoryHeader \o MountPrefix \o <<LF>>

\* the failures of an input or existence precondition
PreconditionFailures ==
    {"ValidationError", "NotFoundError", "ConflictError", "AmbiguousMatchError", "RangeError"}

\* the call r, if it failed a precondition, left the file system as it was
Framed(r) == r.outcome \in PreconditionFailures => r.fs = FS

\* C15: every call of view, create, replace, insert, delete and rename that ends in
\* ValidationError, NotFoundError, ConflictError, AmbiguousMatchError or RangeError
\* leaves the directories, the leaves and every leaf's content as they were.
C15_FailureFrame ==
    \A p \in VPaths :
        /\ EveryCallWith(p, VPaths, Framed)
        /\ \A n \in ClaimLines, t \in InsertTexts : Framed(insert(FS, p, n, t))

\* a rename was refused for its missing source in a store that holds two documents
C15_Witness ==
    /\ last.op = "rename" /\ last.outcome = "NotFoundError"
    /\ Cardinality(StoreNodes(FS)) = 2

\* the children of the directory at loc whose names do not begin with "."
Visible(fs, loc) == {q \in Children(fs, loc) : q[Len(q)][1] # DOT}

\* how a child is named in a listing: its name, with "/" after a directory's
Shown(fs, q) == IF q \in fs.dirs THEN Append(q[Len(q)], SLASH) ELSE q[Len(q)]

\* the lines of text are one entry per visible child of loc, each after prefix,
\* in ascending order of name; nothing below a child appears
ListsChildren(fs, loc, text, prefix) ==
    LET entries == splitlines(text, FALSE)
        kids == Visible(fs, loc)
    IN  /\ Len(entries) = Cardinality(kids)
        /\ text = Join(entries, <<LF>>)
        /\ \A q \in kids : \E i \in 1..Len(entries) : entries[i] = prefix \o Shown(fs, q)
        /\ \A i \in 1..Len(entries), j \in 1..Len(entries) :
              i < j => \E q \in kids, x \in kids :
                          /\ entries[i] = prefix \o Shown(fs, q)
                          /\ entries[j] = prefix \o Shown(fs, x)
                          /\ NameLess(q[Len(q)], x[Len(x)])

\* C16 as stated: view of a directory returns exactly the newline-joined names of
\* its visible immediate children, directories with a "/" suffix, in lexicographic
\* order, and nothing else.
C16_NamesOnly ==
    \A p \in VPaths :
        (Accepted(p) /\ is_dir(FS, FullPath(p))) =>
            LET r == view(FS, p, <<>>)
            IN  r.outcome = "ok" /\ ListsChildren(FS, Locate(FS, FullPath(p)).loc, r.ret, <<>>)

\* C16 amended: view of a directory returns the line "Directory: p" for the path p
\* asked for, followed by one line "- name" per visible immediate child,
\* directories with a "/" suffix, in lexicographic order, and nothing else.
C16_Listing ==
    \A p \in VPaths :
        (Accepted(p) /\ is_dir(FS, FullPath(p))) =>
            \A range \in ViewRanges :
                LET r == view(FS, p, range)
                IN  /\ r.outcome = "ok"
                    /\ StartsWith(r.ret, DirectoryHeader \o p \o <<LF>>)
                    /\ ListsChildren(FS, Locate(FS, FullPath(p)).loc,
                                     ListingBody(r.ret, p), <<"-", " ">>)

\* a directory was viewed in a store of two directories, a and b, and no leaf
C16_Witness ==
    /\ last.op = "view" /\ last.outcome = "ok"
    /\ files = NoFiles
    /\ Append(RootAbs, <<"a">>) \in dirs /\ Append(RootAbs, <<"b">>) \in dirs

\* the ranges tried against a leaf: any start, and an end that is -1 or at least 1
ClaimRanges == {<<s, e>> : s \in (-1)..(MaxText + 2), e \in {-1} \cup 1..(MaxText + 2)}

\* lines lo..hi of L, none when hi < lo
LinesFromTo(L, lo, hi) == [i \in 1..(hi - lo + 1) |-> L[lo + i - 1]]

\* C17: view(p, [start, end]) of a leaf of lines L[1..c] returns the newline-joined
\* lines max(start, 1) through end, where end = -1 or end > c stands for c; with
\* no range it returns all c lines; view fails with NotFoundError when p is
\* neither a leaf nor a directory.
C17_ViewRange ==
    \A p \in VPaths :
        Accepted(p) =>
            IF is_file(FS, FullPath(p))
            THEN LET L == ViewLines(FS, p)
                     c == Len(L)
                 IN  /\ view(FS, p, <<>>).outcome = "ok"
                     /\ view(FS, p, <<>>).ret = Join(L, <<LF>>)
                     /\ \A range \in ClaimRanges :
                           LET lo == Max(range[1], 1)
                               hi == IF range[2] = -1 \/ range[2] > c THEN c ELSE range[2]
                               r == view(FS, p, range)
                           IN  /\ r.outcome = "ok"
                               /\ r.ret = Join(LinesFromTo(L, lo, hi), <<LF>>)
            ELSE is_dir(FS, FullPath(p))
                   \/ \A range \in {<<>>} \cup ClaimRanges :
                         view(FS, p, range).outcome = "NotFoundError"

\* a leaf of three lines was viewed
C17_Witness ==
    /\ last.op = "view" /\ last.outcome = "ok"
    /\ \E p \in VPaths : Accepted(p) /\ is_file(FS, FullPath(p)) /\ Len(ViewLines(FS, p)) = 3

\* ranges a view is tried with: none, whole, first line, past the end, inverted
ReadRanges == {<<>>, <<1, -1>>, <<0, 1>>, <<2, 5>>, <<3, 1>>}

\* C18: view leaves the directories, the leaves and every leaf's content as they
\* were, whether it succeeds or fails, on any path and with or without a range;
\* a second view of a directory right after the first returns the same listing.
C18_ViewReadOnly ==
    \A p \in VPaths \cup EscapingPaths \cup UnprefixedPaths, range \in ViewRanges \cup ReadRanges :
        LET r == view(FS, p, range)
        IN  /\ r.fs = FS
            /\ (Accepted(p) /\ is_dir(FS, FullPath(p))) =>
                  /\ r.outcome = "ok"
                  /\ view(r.fs, p, range).ret = r.ret

\* a view has just returned in a store that holds a directory with a leaf in it
C18_Witness ==
    /\ last.op = "view" /\ last.outcome = "ok"
    /\ \E d \in StoreNodes(FS) : d \in dirs /\ \E f \in DOMAIN files : Parent(f) = d

\* the virtual path, free of ".." segments, of a location at or below the store root
VirtualOf(loc) ==
    MountPrefix \o Concat([i \in 1..(Len(loc) - Len(RootAbs)) |-> <<SLASH>> \o loc[Len(RootAbs) + i]])

\* no node that the path P goes through on its way to its last part is a leaf
NoLeafOnTheWay(fs, full_path) ==
    \A k \in 0..(Len(full_path) - 1) : resolve(SubSeq(full_path, 1, k)) \notin DOMAIN fs.files

\* every location from the store root down to the parent of dest is a directory
AncestorsAreDirs(fs, dest) ==
    \A k \in Len(RootAbs)..(Len(dest) - 1) : SubSeq(dest, 1, k) \in fs.dirs

\* view of the parent of dest shows dest as an entry
ListedInParent(fs, dest) ==
    LET shown == view(fs, VirtualOf(Parent(dest)), <<>>)
        entries == splitlines(shown.ret, FALSE)
    IN  /\ shown.outcome = "ok"
        /\ \E i \in 1..Len(entries) : entries[i] = <<"-", " ">> \o Shown(fs, dest)

\* a destination below the store root with nothing at it and no leaf on the way
FreeDestination(p) ==
    /\ Accepted(p)
    /\ IsPrefix(RootAbs, LocationOf(p)) /\ LocationOf(p) # RootAbs
    /\ ~Exists(FS, LocationOf(p))
    /\ NoLeafOnTheWay(FS, FullPath(p))

\* what C19 asks of a call r whose destination is dest; hidden tells whether a
\* destination with a name that begins with "." is asked to be listed too
MadeWithAncestors(r, dest, hidden) ==
    /\ r.outcome = "ok"
    /\ Exists(r.fs, dest)
    /\ AncestorsAreDirs(r.fs, dest)
    /\ (hidden \/ dest[Len(dest)][1] # DOT) => ListedInParent(r.fs, dest)

LogCalls ==
    {"log_user_input", "log_llm_request", "log_tool_call", "log_tool_result",
     "log_llm_response", "log_token_usage", "log_error"}

\* C20: every log call appends exactly one event at the end of the event list and
\* no call of the recorder changes, removes or reorders an event recorded before;
\* after every log call (and finalize) whose save succeeded, the persisted
\* document holds exactly the in-memory events, in the same order.
C20_AppendOnly ==
    /\ []((last.op \in LogCalls \cup {"finalize"} /\ last.outcome = "ok") =>
             (trace_file.state = "whole" /\ trace_file.trace.events = trace.events))
    /\ [][/\ Len(trace'.events) >= Len(trace.events)
          /\ SubSeq(trace'.events, 1, Len(trace.events)) = trace.events
          /\ last'.op \in LogCalls => Len(trace'.events) = Len(trace.events) + 1
          /\ last'.op \in LogCalls => trace'.events[Len(trace'.events)].event_type \in EventTypes
          /\ last'.op = "finalize" => trace'.events = trace.events]_vars

\* a tool result was logged as the second event, after a different first event,
\* and saved
C20_Witness ==
    /\ last.op = "log_tool_result" /\ last.outcome = "ok"
    /\ Len(trace.events) = 2
    /\ trace.events[1].event_type = "tool_call"
    /\ trace_file.state = "whole"

\* C21: the store root is a directory in every state reachable by calls of view,
\* create, replace, insert, delete, rename and clear-all on accepted paths, the
\* mount prefix itself among them.
C21_RootExists ==
    last.op \in {"init", "view", "create", "str_replace", "insert", "delete", "rename",
                 "clear_all_memory"} =>
        RootAbs \in dirs

\* C22: a rename(old, new) that fails, for whatever reason, leaves the directories,
\* the leaves and every leaf's content as they were; no directory on the way to
\* new that was missing before the call exists after it.
C22_FailedRenameFrame ==
    \A old \in VPaths \cup EscapingPaths \cup UnprefixedPaths, new \in VPaths :
        /\ LET r == rename(FS, old, new) IN r.outcome # "ok" => r.fs = FS
        /\ LET r == rename(FS, new, old) IN r.outcome # "ok" => r.fs = FS

\* the node at x is the same in both file systems: there or not, directory or
\* leaf, and with the same content
SameNode(x, before, after) ==
    /\ x \in after.dirs <=> x \in before.dirs
    /\ x \in DOMAIN after.files <=> x \in DOMAIN before.files
    /\ (x \in DOMAIN before.files /\ x \in DOMAIN after.files) => after.files[x] = before.files[x]

\* x is a directory that the call made on the way down to the target
AddedAncestor(x, target, before, after) ==
    /\ ~Exists(before, x) /\ x \in after.dirs
    /\ IsPrefix(x, target) /\ x # target

\* every node outside the subtrees at the targets is as it was, but for
\* directories added above a target when ancestors tells so
OnlyTouches(targets, before, after, ancestors) ==
    \A x \in before.dirs \cup DOMAIN before.files \cup after.dirs \cup DOMAIN after.files :
        \/ \E t \in targets : IsPrefix(t, x)
        \/ SameNode(x, before, after)
        \/ ancestors /\ \E t \in targets : AddedAncestor(x, t, before, after)

\* the calls of C23 with their targets: a successful create, replace or insert on
\* p, a successful delete(p), a successful rename(old, new)
TouchesOnlyTargets(paths) ==
    \A p \in paths :
        Accepted(p) =>
            LET at == LocationOf(p)
            IN  /\ \A t \in CreateTexts :
                      LET r == create(FS, p, t)
                      IN  r.outcome = "ok" => OnlyTouches({at}, FS, r.fs, TRUE)
                /\ \A old \in OldTexts, new \in NewTexts :
                      LET r == str_replace(FS, p, old, new)
                      IN  r.outcome = "ok" => OnlyTouches({at}, FS, r.fs, FALSE)
                /\ \A n \in InsertLines, t \in InsertTexts :
                      LET r == insert(FS, p, n, t)
                      IN  r.outcome = "ok" => OnlyTouches({at}, FS, r.fs, FALSE)
                /\ LET r == delete(FS, p)
                   IN  r.outcome = "ok" => OnlyTouches({at}, FS, r.fs, FALSE)
                /\ \A q \in paths :
                      Accepted(q) =>
                          LET r == rename(FS, p, q)
                          IN  r.outcome = "ok" => OnlyTouches({at, LocationOf(q)}, FS, r.fs, TRUE)

\* C23: a successful create, replace or insert on p leaves every other node as it
\* was (create may add missing ancestor directories of p); a successful delete(p)
\* leaves every node outside the subtree of p as it was; a successful
\* rename(old, new) leaves every node outside the subtrees of old and new as it
\* was (but for missing ancestor directories of new).
C23_OnlyTarget == TouchesOnlyTargets(VPaths)

====
